---- MODULE Spec2Model ----
(***************************************************************************)
(* A model of filesharegocli (src/main.go): the command line dispatch of   *)
(* main, the two straight-line call sequences UploadFiles and              *)
(* DownloadFromCid, the string helper GetCidStrFromString and the          *)
(* sync.Once guarded plugin set-up of SpawnEphemeral.                      *)
(*                                                                         *)
(* A Go string is a sequence of one-character strings.  Library calls      *)
(* (kubo, boxo, go-cid, os) are steps whose result is drawn from the       *)
(* outcomes their signature allows.                                        *)
(***************************************************************************)
EXTENDS Integers, Sequences, FiniteSets, TLC

\* ------------------------------------------------------------------ bounds
\* longest text drawn after the optional prefix of a GetCidStrFromString input
MaxLen == 4
\* longest text drawn after the optional prefix of the -c flag
MaxCidLen == 3
\* signals the environment sends to the process in one run
MaxSignals == 2
\* progress bar ticks of ForeverSpin that are told apart
MaxSpin == 2
\* concurrent callers of SpawnEphemeral
NumCallers == 2
\* calls of SpawnEphemeral each caller makes, one after the other
MaxCalls == 2

\* ----------------------------------------------------------------- strings
SLASH == "/"
SP == " "
CR == "\r"
LF == "\n"
\* the characters inputs are drawn from: the separator, the three characters
\* of the cutset, and two characters that stand for any other character
Chars == {SLASH, SP, CR, LF, "Q", "m"}
\* the cutset of strings.Trim(cidStr, " \r\n")
Cutset == {SP, CR, LF}

RECURSIVE SeqsUpTo(_, _)
SeqsUpTo(S, n) ==
  IF n = 0 THEN {<<>>}
  ELSE LET shorter == SeqsUpTo(S, n - 1)
       IN  shorter \cup {Append(s, c) : s \in {t \in shorter : Len(t) = n - 1}, c \in S}

IpfsPrefix == <<"/", "i", "p", "f", "s", "/">>
\* what precedes the drawn text of an input: nothing, "/ipfs/", or "/ipns/x/"
Prefixes == {<<>>, IpfsPrefix, <<"/", "i", "p", "n", "s", "/", "x", "/">>}

\* strings.Index(str, sep): the 0-based index of the first occurrence
IndexOfFirst(str, sep) ==
  IF \E i \in 1..Len(str) : str[i] = sep
  THEN (CHOOSE i \in 1..Len(str) : str[i] = sep /\ \A j \in 1..(i - 1) : str[j] # sep) - 1
  ELSE -1

\* strings.LastIndex(str, sep) for a one-character sep: the 0-based index of
\* the last occurrence, -1 when there is none
LastIndex(str, sep) ==
  IF \E i \in 1..Len(str) : str[i] = sep
  THEN (CHOOSE i \in 1..Len(str) : str[i] = sep /\ \A j \in (i + 1)..Len(str) : str[j] # sep) - 1
  ELSE -1

\* the Go slice expression str[lo:] (lo is 0-based)
SliceFrom(str, lo) == SubSeq(str, lo + 1, Len(str))

RECURSIVE TrimLeft(_, _)
TrimLeft(s, cutset) ==
  IF s # <<>> /\ Head(s) \in cutset THEN TrimLeft(Tail(s), cutset) ELSE s

RECURSIVE TrimRight(_, _)
TrimRight(s, cutset) ==
  IF s # <<>> /\ s[Len(s)] \in cutset THEN TrimRight(SubSeq(s, 1, Len(s) - 1), cutset) ELSE s

\* strings.Trim(s, cutset): leading and trailing characters of cutset removed
Trim(s, cutset) == TrimRight(TrimLeft(s, cutset), cutset)

\* main.go 237-242
GetCidStrFromString(str) ==
  LET cidStr == SliceFrom(str, LastIndex(str, SLASH) + 1)
  IN  Trim(cidStr, Cutset)

\* filepath.Clean and filepath.Base work on the elements between separators
RECURSIVE Split(_, _)
Split(s, sep) ==
  IF \E i \in 1..Len(s) : s[i] = sep
  THEN LET i == CHOOSE k \in 1..Len(s) : s[k] = sep /\ \A j \in 1..(k - 1) : s[j] # sep
       IN  <<SubSeq(s, 1, i - 1)>> \o Split(SubSeq(s, i + 1, Len(s)), sep)
  ELSE <<s>>

RECURSIVE Join(_, _)
Join(elems, sep) ==
  IF elems = <<>> THEN <<>>
  ELSE IF Len(elems) = 1 THEN elems[1]
  ELSE elems[1] \o <<sep>> \o Join(Tail(elems), sep)

DOT == <<".">>
DOTDOT == <<".", ".">>

\* the elements Clean keeps, left to right: empty and "." elements go, ".."
\* removes the element before it, is dropped at the root and is kept at the
\* start of a relative path
RECURSIVE CleanElems(_, _, _)
CleanElems(todo, kept, rooted) ==
  IF todo = <<>> THEN kept
  ELSE LET e == Head(todo)
       IN  IF e = <<>> \/ e = DOT THEN CleanElems(Tail(todo), kept, rooted)
           ELSE IF e = DOTDOT
           THEN IF kept # <<>> /\ kept[Len(kept)] # DOTDOT
                THEN CleanElems(Tail(todo), SubSeq(kept, 1, Len(kept) - 1), rooted)
                ELSE IF rooted THEN CleanElems(Tail(todo), kept, rooted)
                ELSE CleanElems(Tail(todo), Append(kept, e), rooted)
           ELSE CleanElems(Tail(todo), Append(kept, e), rooted)

\* filepath.Clean(path)
Clean(path) ==
  LET rooted == path # <<>> /\ path[1] = SLASH
      body == Join(CleanElems(Split(path, SLASH), <<>>, rooted), SLASH)
  IN  IF rooted THEN <<SLASH>> \o body
      ELSE IF body = <<>> THEN DOT ELSE body

\* filepath.Base(path): the last element, trailing separators removed first
Base(path) ==
  IF path = <<>> THEN DOT
  ELSE LET p == TrimRight(path, {SLASH})
       IN  IF p = <<>> THEN <<SLASH>>
           ELSE SliceFrom(p, LastIndex(p, SLASH) + 1)

\* ------------------------------------------------------------------- state
VARIABLES
  \* a call of GetCidStrFromString and a second call on its result
  str, cidStr, cidStr2, strPc,
  \* one run of the program
  flagCid, flagFilePath, pc, invoked, nodeStarted, ctx, deferCancel, trace,
  stdout, exitStatus, provided, dlCidStr, outputPath, writeTarget, downloadDir,
  wrapped, cidFile, err, returnedFrom, retStr, retErr, notify, quitChannel,
  sigs, sigTaken, spinning, bar,
  \* concurrent and repeated calls of SpawnEphemeral
  spPc, spCalls, onceErr, spRet, onceDone, onceM, setupRuns, setupResult,
  repos, nodes,
  \* an upload on one machine and the download of its CID on another
  rtPc, rtPath, rtNode, rtProvided, rtPrinted, rtFlagCid, rtOutPath, rtOut

strVars == <<str, cidStr, cidStr2, strPc>>
runVars == <<flagCid, flagFilePath, pc, invoked, nodeStarted, ctx, deferCancel,
             trace, stdout, exitStatus, provided, dlCidStr, outputPath,
             writeTarget, downloadDir, wrapped, cidFile, err, returnedFrom,
             retStr, retErr, notify, quitChannel, sigs, sigTaken, spinning, bar>>
spawnVars == <<spPc, spCalls, onceErr, spRet, onceDone, onceM, setupRuns,
               setupResult, repos, nodes>>
rtVars == <<rtPc, rtPath, rtNode, rtProvided, rtPrinted, rtFlagCid, rtOutPath,
            rtOut>>
vars == <<strVars, runVars, spawnVars, rtVars>>

\* --------------------------------------------- GetCidStrFromString, alone
StrInputs == {pre \o body : pre \in Prefixes, body \in SeqsUpTo(Chars, MaxLen)}

StrInit ==
  /\ str \in StrInputs
  /\ cidStr = <<>>
  /\ cidStr2 = <<>>
  /\ strPc = "call"

StrIdle ==
  /\ str = <<>>
  /\ cidStr = <<>>
  /\ cidStr2 = <<>>
  /\ strPc = "idle"

CallGetCidStrFromString ==
  /\ strPc = "call"
  /\ cidStr' = GetCidStrFromString(str)
  /\ strPc' = "ret"
  /\ UNCHANGED <<str, cidStr2, runVars, spawnVars, rtVars>>

CallGetCidStrFromStringAgain ==
  /\ strPc = "ret"
  /\ cidStr2' = GetCidStrFromString(cidStr)
  /\ strPc' = "again"
  /\ UNCHANGED <<str, cidStr, runVars, spawnVars, rtVars>>

\* ------------------------------------------------------------ the program
Signals == {"SIGINT", "SIGTERM"}

\* the CIDs Unixfs().Add can answer with
Cids == {<<"Q", "m">>, <<"m", "Q">>}

\* values of the -f flag: unset, a file name, a path with a directory
FlagPaths == {<<>>, <<"a">>, <<"d", "/", "a">>}
\* values of the -c flag: unset, or text with an optional path prefix
FlagChars == {SLASH, LF, "Q", "m"}
FlagCids == {pre \o body : pre \in Prefixes, body \in SeqsUpTo(FlagChars, MaxCidLen)}

\* cid.Parse(cidStr) (go-cid): fewer than two characters is ErrCidTooShort,
\* and no encoding has the separator or a character of the cutset in it
CidParseOk(s) == Len(s) >= 2 /\ \A i \in 1..Len(s) : s[i] \notin {SLASH} \cup Cutset

\* what SpawnEphemeral returns to StartIpfsNode: a node, or the error of
\* SetupPlugins, CreateTempRepo, CreateNode or NewCoreAPI
SpawnResults == {"ok", "plugins", "repo", "node", "api"}

\* path.FromCid(c).String()
PathString(c) == IpfsPrefix \o c

DownloadPrefix == <<".", "/", "D", "o", "w", "n", "l", "o", "a", "d", "/">>

RunIdleRest ==
  /\ invoked = {}
  /\ nodeStarted = FALSE
  /\ ctx = "none"
  /\ deferCancel = FALSE
  /\ trace = <<>>
  /\ stdout = <<>>
  /\ dlCidStr = <<>>
  /\ outputPath = <<>>
  /\ writeTarget = <<>>
  /\ downloadDir = FALSE
  /\ wrapped = FALSE
  /\ cidFile = <<>>
  /\ err = "unset"
  /\ returnedFrom = "none"
  /\ retStr = <<>>
  /\ retErr = "unset"
  /\ notify = FALSE
  /\ quitChannel = <<>>
  /\ sigs = 0
  /\ sigTaken = FALSE
  /\ spinning = FALSE
  /\ bar = 0

\* the state after flag.Parse (main.go 302-308)
RunInit ==
  /\ flagCid \in {<<>>} \cup FlagCids
  /\ flagFilePath \in FlagPaths
  /\ provided \in BOOLEAN
  /\ pc = "main"
  /\ exitStatus = "running"
  /\ RunIdleRest

RunIdle ==
  /\ flagCid = <<>>
  /\ flagFilePath = <<>>
  /\ provided = FALSE
  /\ pc = "idle"
  /\ exitStatus = "idle"
  /\ RunIdleRest

\* main.go 310-318 with the file flag tested first (a slip in the dispatch)
mainFileFirst ==
  /\ pc = "main"
  /\ IF flagCid # <<>> \/ flagFilePath # <<>>
     THEN IF flagFilePath # <<>>
          THEN /\ invoked' = invoked \cup {"UploadFiles"}
               /\ pc' = "up_StartIpfsNode"
               /\ UNCHANGED stdout
          ELSE /\ invoked' = invoked \cup {"DownloadFromCid"}
               /\ pc' = "dl_StartIpfsNode"
               /\ UNCHANGED stdout
     ELSE /\ stdout' = Append(stdout, <<"usage">>)
          /\ pc' = "main_ret"
          /\ UNCHANGED invoked
  /\ UNCHANGED <<strVars, spawnVars, rtVars, flagCid, flagFilePath, nodeStarted, ctx, deferCancel,
                 trace, exitStatus, provided, dlCidStr, outputPath, writeTarget,
                 downloadDir, wrapped, cidFile, err, returnedFrom, retStr,
                 retErr, notify, quitChannel, sigs, sigTaken, spinning, bar>>

\* main.go 310-318: the dispatch on the two flags
main ==
  /\ pc = "main"
  /\ IF flagCid # <<>> \/ flagFilePath # <<>>
     THEN IF flagCid # <<>>
          THEN /\ invoked' = invoked \cup {"DownloadFromCid"}
               /\ pc' = "dl_StartIpfsNode"
               /\ UNCHANGED stdout
          ELSE IF flagFilePath # <<>>
          THEN /\ invoked' = invoked \cup {"UploadFiles"}
               /\ pc' = "up_StartIpfsNode"
               /\ UNCHANGED stdout
          ELSE /\ pc' = "main_ret"
               /\ UNCHANGED <<invoked, stdout>>
     ELSE /\ stdout' = Append(stdout, <<"usage">>)
          /\ pc' = "main_ret"
          /\ UNCHANGED invoked
  /\ UNCHANGED <<strVars, spawnVars, rtVars, flagCid, flagFilePath, nodeStarted, ctx, deferCancel,
                 trace, exitStatus, provided, dlCidStr, outputPath, writeTarget,
                 downloadDir, wrapped, cidFile, err, returnedFrom, retStr,
                 retErr, notify, quitChannel, sigs, sigTaken, spinning, bar>>

\* panic(fmt.Errorf(...)) after the call of `step` failed: the deferred calls
\* run (cancel, once it is deferred), the runtime reports the panic and the
\* process exits with status 2
Panic(step) ==
  /\ trace' = Append(trace, <<step, "err">>)
  /\ err' = "err"
  /\ ctx' = IF deferCancel THEN "cancelled" ELSE ctx
  /\ exitStatus' = "2"
  /\ pc' = "exited"

\* the call of `step` returned a nil error: control goes on to `next`
Proceed(step, next) ==
  /\ trace' = Append(trace, <<step, "ok">>)
  /\ err' = "nil"
  /\ pc' = next
  /\ UNCHANGED <<ctx, exitStatus>>

\* main.go 130-145: the context is made first, then SpawnEphemeral is called;
\* its error panics (139) before any cancel is deferred
StartIpfsNode(next, r) ==
  /\ trace' = Append(trace, <<"StartIpfsNode", IF r = "ok" THEN "ok" ELSE "err">>)
  /\ err' = IF r = "ok" THEN "nil" ELSE "err"
  /\ ctx' = "live"
  /\ nodeStarted' = (r = "ok")
  /\ stdout' = stdout \o <<<<"-- Getting an IPFS node running -- ">>,
                          <<"Spawning Kubo node on a temporary repo">>>>
                      \o (IF r = "ok" THEN <<<<"IPFS node is running">>>> ELSE <<>>)
  /\ pc' = IF r = "ok" THEN next ELSE "exited"
  /\ exitStatus' = IF r = "ok" THEN exitStatus ELSE "2"

\* --------------------------------------------------------- DownloadFromCid
\* main.go 246-251: StartIpfsNode, then defer cancel()
DlStartIpfsNode ==
  /\ pc = "dl_StartIpfsNode"
  /\ \E r \in SpawnResults :
       /\ StartIpfsNode("dl_Parse", r)
       /\ deferCancel' = (r = "ok")
  /\ UNCHANGED <<strVars, spawnVars, rtVars, flagCid, flagFilePath, invoked, provided, dlCidStr,
                 outputPath, writeTarget, downloadDir, wrapped, cidFile,
                 returnedFrom, retStr, retErr, notify, quitChannel, sigs,
                 sigTaken, spinning, bar>>

\* main.go 253-259: the prefix is stripped, the rest parsed as a CID
DlParse ==
  /\ pc = "dl_Parse"
  /\ dlCidStr' = GetCidStrFromString(flagCid)
  /\ \E ok \in (IF CidParseOk(dlCidStr') THEN BOOLEAN ELSE {FALSE}) :
       IF ok
       THEN /\ Proceed("Parse", "dl_Get")
            /\ stdout' = Append(stdout, <<"Fetching a file from the network with CID", dlCidStr'>>)
       ELSE /\ Panic("Parse")
            /\ UNCHANGED stdout
  /\ UNCHANGED <<strVars, spawnVars, rtVars, flagCid, flagFilePath, invoked, nodeStarted,
                 deferCancel, provided, outputPath, writeTarget, downloadDir,
                 wrapped, cidFile, returnedFrom, retStr, retErr, notify,
                 quitChannel, sigs, sigTaken, spinning, bar>>

\* main.go 261-264: Unixfs().Get resolves the root block under ctx, which has
\* no deadline: the call returns once a peer has supplied the block (or the
\* block is there and is no UnixFS node), and waits as long as none has
DlGet ==
  /\ pc = "dl_Get"
  /\ provided
  /\ \E ok \in BOOLEAN :
       IF ok THEN Proceed("Get", "dl_Ls") ELSE Panic("Get")
  /\ UNCHANGED <<strVars, spawnVars, rtVars, flagCid, flagFilePath, invoked, nodeStarted,
                 deferCancel, stdout, provided, dlCidStr, outputPath,
                 writeTarget, downloadDir, wrapped, cidFile, returnedFrom,
                 retStr, retErr, notify, quitChannel, sigs, sigTaken, spinning,
                 bar>>

\* main.go 266-276: ctx.Done() only reads the channel of ctx; Ls, then the
\* names are printed
DlLs ==
  /\ pc = "dl_Ls"
  /\ provided
  /\ \E ok \in BOOLEAN :
       IF ok
       THEN /\ Proceed("Ls", "dl_MkdirAll")
            /\ stdout' = Append(stdout, <<"file names">>)
       ELSE /\ Panic("Ls")
            /\ UNCHANGED stdout
  /\ UNCHANGED <<strVars, spawnVars, rtVars, flagCid, flagFilePath, invoked, nodeStarted,
                 deferCancel, provided, dlCidStr, outputPath, writeTarget,
                 downloadDir, wrapped, cidFile, returnedFrom, retStr, retErr,
                 notify, quitChannel, sigs, sigTaken, spinning, bar>>

\* main.go 278-283 had shouldWorkButNot been true
OutputPathSameDirectory(c) == DOT

\* main.go 278-283: shouldWorkButNot is false
OutputPath(c) == DownloadPrefix \o c

\* main.go 278-288 with the error of MkdirAll dropped
DlMkdirAllErrorDropped ==
  /\ pc = "dl_MkdirAll"
  /\ outputPath' = OutputPath(dlCidStr)
  /\ \E ok \in BOOLEAN :
       /\ trace' = Append(trace, <<"MkdirAll", IF ok THEN "ok" ELSE "err">>)
       /\ err' = IF ok THEN "nil" ELSE "err"
       /\ pc' = "dl_WriteTo"
       /\ downloadDir' = ok
  /\ UNCHANGED <<strVars, spawnVars, rtVars, flagCid, flagFilePath, invoked, nodeStarted, ctx,
                 deferCancel, stdout, exitStatus, provided, dlCidStr,
                 writeTarget, wrapped, cidFile, returnedFrom, retStr, retErr,
                 notify, quitChannel, sigs, sigTaken, spinning, bar>>

\* main.go 278-288: outputPath is set, then the Download directory is made
DlMkdirAll ==
  /\ pc = "dl_MkdirAll"
  /\ outputPath' = OutputPath(dlCidStr)
  /\ \E ok \in BOOLEAN :
       IF ok
       THEN /\ Proceed("MkdirAll", "dl_WriteTo")
            /\ downloadDir' = TRUE
       ELSE /\ Panic("MkdirAll")
            /\ UNCHANGED downloadDir
  /\ UNCHANGED <<strVars, spawnVars, rtVars, flagCid, flagFilePath, invoked, nodeStarted,
                 deferCancel, stdout, provided, dlCidStr, writeTarget, wrapped,
                 cidFile, returnedFrom, retStr, retErr, notify, quitChannel,
                 sigs, sigTaken, spinning, bar>>

\* main.go 290-297: WriteTo the cleaned path; on success the message, the
\* return of (outputPath, err, 100) and the deferred cancel
DlWriteTo ==
  /\ pc = "dl_WriteTo"
  /\ provided
  /\ writeTarget' = Clean(outputPath)
  /\ \E ok \in BOOLEAN :
       IF ok
       THEN /\ trace' = Append(trace, <<"WriteTo", "ok">>)
            /\ err' = "nil"
            /\ stdout' = Append(stdout, <<"Wrote the files to", outputPath>>)
            /\ returnedFrom' = "DownloadFromCid"
            /\ retStr' = outputPath
            /\ retErr' = err'
            /\ ctx' = IF deferCancel THEN "cancelled" ELSE ctx
            /\ pc' = "main_ret"
            /\ UNCHANGED exitStatus
       ELSE /\ Panic("WriteTo")
            /\ UNCHANGED <<stdout, returnedFrom, retStr, retErr>>
  /\ UNCHANGED <<strVars, spawnVars, rtVars, flagCid, flagFilePath, invoked, nodeStarted,
                 deferCancel, provided, dlCidStr, outputPath, downloadDir,
                 wrapped, cidFile, notify, quitChannel, sigs, sigTaken,
                 spinning, bar>>

\* ------------------------------------------------------------- UploadFiles
\* main.go 176-179: StartIpfsNode; no cancel is deferred here
UpStartIpfsNode ==
  /\ pc = "up_StartIpfsNode"
  /\ \E r \in SpawnResults : StartIpfsNode("up_GetUnixfsNode", r)
  /\ UNCHANGED <<strVars, spawnVars, rtVars, flagCid, flagFilePath, invoked, deferCancel, provided,
                 dlCidStr, outputPath, writeTarget, downloadDir, wrapped,
                 cidFile, returnedFrom, retStr, retErr, notify, quitChannel,
                 sigs, sigTaken, spinning, bar>>

\* main.go 181-184 (GetUnixfsNode, 108-120: os.Stat, files.NewSerialFile)
UpGetUnixfsNode ==
  /\ pc = "up_GetUnixfsNode"
  /\ \E ok \in BOOLEAN :
       IF ok THEN Proceed("GetUnixfsNode", "up_Stat") ELSE Panic("GetUnixfsNode")
  /\ UNCHANGED <<strVars, spawnVars, rtVars, flagCid, flagFilePath, invoked, nodeStarted,
                 deferCancel, stdout, provided, dlCidStr, outputPath,
                 writeTarget, downloadDir, wrapped, cidFile, returnedFrom,
                 retStr, retErr, notify, quitChannel, sigs, sigTaken, spinning,
                 bar>>

\* main.go 187-197: os.Stat again; a path that is no directory is wrapped in
\* a directory of one entry
UpStat ==
  /\ pc = "up_Stat"
  /\ \E ok \in BOOLEAN, isDir \in BOOLEAN :
       IF ok
       THEN /\ Proceed("Stat", "up_Add")
            /\ wrapped' = ~isDir
       ELSE /\ Panic("Stat")
            /\ UNCHANGED wrapped
  /\ UNCHANGED <<strVars, spawnVars, rtVars, flagCid, flagFilePath, invoked, nodeStarted,
                 deferCancel, stdout, provided, dlCidStr, outputPath,
                 writeTarget, downloadDir, cidFile, returnedFrom, retStr,
                 retErr, notify, quitChannel, sigs, sigTaken, spinning, bar>>

\* main.go 199-204: Unixfs().Add, then the CID is printed
UpAdd ==
  /\ pc = "up_Add"
  /\ \E ok \in BOOLEAN, c \in Cids :
       IF ok
       THEN /\ Proceed("Add", "up_Ls")
            /\ cidFile' = c
            /\ stdout' = Append(stdout, <<"Added file to IPFS", PathString(c)>>)
       ELSE /\ Panic("Add")
            /\ UNCHANGED <<cidFile, stdout>>
  /\ UNCHANGED <<strVars, spawnVars, rtVars, flagCid, flagFilePath, invoked, nodeStarted,
                 deferCancel, provided, dlCidStr, outputPath, writeTarget,
                 downloadDir, wrapped, returnedFrom, retStr, retErr, notify,
                 quitChannel, sigs, sigTaken, spinning, bar>>

\* main.go 207-215: Unixfs().Ls of the added CID, then the names are printed
UpLs ==
  /\ pc = "up_Ls"
  /\ \E ok \in BOOLEAN :
       IF ok
       THEN /\ Proceed("Ls", "up_Size")
            /\ stdout' = Append(stdout, <<"file names">>)
       ELSE /\ Panic("Ls")
            /\ UNCHANGED stdout
  /\ UNCHANGED <<strVars, spawnVars, rtVars, flagCid, flagFilePath, invoked, nodeStarted,
                 deferCancel, provided, dlCidStr, outputPath, writeTarget,
                 downloadDir, wrapped, cidFile, returnedFrom, retStr, retErr,
                 notify, quitChannel, sigs, sigTaken, spinning, bar>>

\* main.go 217-222: someFile.Size(), then the size is printed
UpSize ==
  /\ pc = "up_Size"
  /\ \E ok \in BOOLEAN :
       IF ok
       THEN /\ Proceed("Size", "up_Notify")
            /\ stdout' = Append(stdout, <<"Seeding size">>)
       ELSE /\ Panic("Size")
            /\ UNCHANGED stdout
  /\ UNCHANGED <<strVars, spawnVars, rtVars, flagCid, flagFilePath, invoked, nodeStarted,
                 deferCancel, provided, dlCidStr, outputPath, writeTarget,
                 downloadDir, wrapped, cidFile, returnedFrom, retStr, retErr,
                 notify, quitChannel, sigs, sigTaken, spinning, bar>>

\* main.go 224-227: go ForeverSpin(); a channel of capacity 1 is registered
\* for SIGINT and SIGTERM
UpNotify ==
  /\ pc = "up_Notify"
  /\ spinning' = TRUE
  /\ notify' = TRUE
  /\ pc' = "up_wait"
  /\ UNCHANGED <<strVars, spawnVars, rtVars, flagCid, flagFilePath, invoked, nodeStarted, ctx,
                 deferCancel, trace, stdout, exitStatus, provided, dlCidStr,
                 outputPath, writeTarget, downloadDir, wrapped, cidFile, err,
                 returnedFrom, retStr, retErr, quitChannel, sigs, sigTaken,
                 bar>>

\* main.go 228 without the receive: the function goes on at once
UpWaitNoReceive ==
  /\ pc = "up_wait"
  /\ pc' = "up_return"
  /\ UNCHANGED <<strVars, spawnVars, rtVars, flagCid, flagFilePath, invoked, nodeStarted, ctx,
                 deferCancel, trace, stdout, exitStatus, provided, dlCidStr,
                 outputPath, writeTarget, downloadDir, wrapped, cidFile, err,
                 returnedFrom, retStr, retErr, notify, quitChannel, sigs,
                 sigTaken, spinning, bar>>

\* main.go 228: <-quitChannel waits until a signal is in the channel
UpWait ==
  /\ pc = "up_wait"
  /\ quitChannel # <<>>
  /\ quitChannel' = Tail(quitChannel)
  /\ sigTaken' = TRUE
  /\ pc' = "up_return"
  /\ UNCHANGED <<strVars, spawnVars, rtVars, flagCid, flagFilePath, invoked, nodeStarted, ctx,
                 deferCancel, trace, stdout, exitStatus, provided, dlCidStr,
                 outputPath, writeTarget, downloadDir, wrapped, cidFile, err,
                 returnedFrom, retStr, retErr, notify, sigs, spinning, bar>>

\* main.go 230-234: "Adios!", ctx.Done() (a read), defer cancel(), and the
\* return of (cidFile.String(), err), on which the deferred cancel runs
UpReturn ==
  /\ pc = "up_return"
  /\ stdout' = Append(stdout, <<"Adios!">>)
  /\ deferCancel' = TRUE
  /\ returnedFrom' = "UploadFiles"
  /\ retStr' = PathString(cidFile)
  /\ retErr' = err
  /\ ctx' = "cancelled"
  /\ pc' = "main_ret"
  /\ UNCHANGED <<strVars, spawnVars, rtVars, flagCid, flagFilePath, invoked, nodeStarted, trace,
                 exitStatus, provided, dlCidStr, outputPath, writeTarget,
                 downloadDir, wrapped, cidFile, err, notify, quitChannel, sigs,
                 sigTaken, spinning, bar>>

\* main.go 122-128: the goroutine adds to the progress bar every 100 ms, for
\* as long as the process lives
ForeverSpin ==
  /\ spinning
  /\ exitStatus = "running"
  /\ bar < MaxSpin
  /\ bar' = bar + 1
  /\ UNCHANGED <<strVars, spawnVars, rtVars, flagCid, flagFilePath, pc, invoked, nodeStarted, ctx,
                 deferCancel, trace, stdout, exitStatus, provided, dlCidStr,
                 outputPath, writeTarget, downloadDir, wrapped, cidFile, err,
                 returnedFrom, retStr, retErr, notify, quitChannel, sigs,
                 sigTaken, spinning>>

\* main.go 319: main returns and the process exits with status 0
MainReturn ==
  /\ pc = "main_ret"
  /\ exitStatus' = "0"
  /\ pc' = "exited"
  /\ UNCHANGED <<strVars, spawnVars, rtVars, flagCid, flagFilePath, invoked, nodeStarted, ctx,
                 deferCancel, trace, stdout, provided, dlCidStr, outputPath,
                 writeTarget, downloadDir, wrapped, cidFile, err, returnedFrom,
                 retStr, retErr, notify, quitChannel, sigs, sigTaken, spinning,
                 bar>>

\* The environment sends SIGINT or SIGTERM.  With the channel registered
\* (main.go 226-227) the signal is put in the channel, or dropped when the
\* channel is full; before that, and in a download, the Go runtime's default
\* applies: the process is ended by the signal and no deferred call runs.
Signal ==
  /\ exitStatus = "running"
  /\ sigs < MaxSignals
  /\ sigs' = sigs + 1
  /\ \E sig \in Signals :
       IF notify
       THEN /\ quitChannel' = IF Len(quitChannel) < 1 THEN Append(quitChannel, sig)
                              ELSE quitChannel
            /\ UNCHANGED <<pc, exitStatus>>
       ELSE /\ exitStatus' = sig
            /\ pc' = "exited"
            /\ UNCHANGED quitChannel
  /\ UNCHANGED <<strVars, spawnVars, rtVars, flagCid, flagFilePath, invoked, nodeStarted, ctx,
                 deferCancel, trace, stdout, provided, dlCidStr, outputPath,
                 writeTarget, downloadDir, wrapped, cidFile, err, returnedFrom,
                 retStr, retErr, notify, sigTaken, spinning, bar>>

\* the steps of the main goroutine
MainThread ==
  \/ main
  \/ DlStartIpfsNode \/ DlParse \/ DlGet \/ DlLs \/ DlMkdirAll \/ DlWriteTo
  \/ UpStartIpfsNode \/ UpGetUnixfsNode \/ UpStat \/ UpAdd \/ UpLs \/ UpSize
  \/ UpNotify \/ UpWait \/ UpReturn
  \/ MainReturn

\* ---------------------------------------------------------- SpawnEphemeral
Callers == 1..NumCallers

SpawnInit ==
  /\ spPc = [c \in Callers |-> "idle"]
  /\ spCalls = [c \in Callers |-> 0]
  /\ onceErr = [c \in Callers |-> "nil"]
  /\ spRet = [c \in Callers |-> "none"]
  /\ onceDone = FALSE
  /\ onceM = 0
  /\ setupRuns = 0
  /\ setupResult = "none"
  /\ repos = 0
  /\ nodes = 0

SpawnIdle == SpawnInit

\* main.go 150-151: a call begins; onceErr is a variable of this call
SpawnEphemeral(c) ==
  /\ spPc[c] = "idle"
  /\ spCalls[c] < MaxCalls
  /\ spCalls' = [spCalls EXCEPT ![c] = @ + 1]
  /\ onceErr' = [onceErr EXCEPT ![c] = "nil"]
  /\ spRet' = [spRet EXCEPT ![c] = "none"]
  /\ spPc' = [spPc EXCEPT ![c] = "Do"]
  /\ UNCHANGED <<strVars, runVars, rtVars, onceDone, onceM, setupRuns,
                 setupResult, repos, nodes>>

\* main.go 152, sync.Once.Do: with done set the function is not called;
\* otherwise the caller goes for the mutex of the Once
OnceDo(c) ==
  /\ spPc[c] = "Do"
  /\ spPc' = [spPc EXCEPT ![c] = IF onceDone THEN "check" ELSE "doSlow"]
  /\ UNCHANGED <<strVars, runVars, rtVars, spCalls, onceErr, spRet, onceDone,
                 onceM, setupRuns, setupResult, repos, nodes>>

\* sync.Once without the second test of done under the mutex: every caller
\* that saw done unset runs the function
OnceDoSlowNoRecheck(c) ==
  /\ spPc[c] = "doSlow"
  /\ onceM = 0
  /\ onceM' = c
  /\ setupRuns' = setupRuns + 1
  /\ spPc' = [spPc EXCEPT ![c] = "SetupPlugins"]
  /\ UNCHANGED <<strVars, runVars, rtVars, spCalls, onceErr, spRet, onceDone,
                 setupResult, repos, nodes>>

\* main.go 152-153, sync.Once.Do: the mutex is taken (the caller waits while
\* another holds it); with done still unset the function starts, otherwise
\* the mutex is released and Do returns
OnceDoSlow(c) ==
  /\ spPc[c] = "doSlow"
  /\ onceM = 0
  /\ IF onceDone
     THEN /\ spPc' = [spPc EXCEPT ![c] = "check"]
          /\ UNCHANGED <<onceM, setupRuns>>
     ELSE /\ onceM' = c
          /\ setupRuns' = setupRuns + 1
          /\ spPc' = [spPc EXCEPT ![c] = "SetupPlugins"]
  /\ UNCHANGED <<strVars, runVars, rtVars, spCalls, onceErr, spRet, onceDone,
                 setupResult, repos, nodes>>

\* main.go 153 and 32-49: SetupPlugins returns nil or the error of
\* NewPluginLoader, Initialize or Inject; the result is stored in the onceErr
\* of the call that ran it; Do then sets done and releases the mutex
SetupPlugins(c) ==
  /\ spPc[c] = "SetupPlugins"
  /\ \E r \in {"nil", "error loading plugins", "error initializing plugins"} :
       /\ onceErr' = [onceErr EXCEPT ![c] = r]
       /\ setupResult' = IF r = "nil" THEN "ok" ELSE "err"
  /\ onceDone' = TRUE
  /\ onceM' = 0
  /\ spPc' = [spPc EXCEPT ![c] = "check"]
  /\ UNCHANGED <<strVars, runVars, rtVars, spCalls, spRet, setupRuns, repos,
                 nodes>>

\* main.go 155-157: the call returns its own onceErr when that is not nil
CheckOnceErr(c) ==
  /\ spPc[c] = "check"
  /\ IF onceErr[c] # "nil"
     THEN /\ spRet' = [spRet EXCEPT ![c] = "err"]
          /\ spPc' = [spPc EXCEPT ![c] = "idle"]
     ELSE /\ spPc' = [spPc EXCEPT ![c] = "CreateTempRepo"]
          /\ UNCHANGED spRet
  /\ UNCHANGED <<strVars, runVars, rtVars, spCalls, onceErr, onceDone, onceM,
                 setupRuns, setupResult, repos, nodes>>

\* main.go 160-163 (CreateTempRepo, 51-86)
CreateTempRepo(c) ==
  /\ spPc[c] = "CreateTempRepo"
  /\ \E ok \in BOOLEAN :
       IF ok
       THEN /\ repos' = repos + 1
            /\ spPc' = [spPc EXCEPT ![c] = "CreateNode"]
            /\ UNCHANGED spRet
       ELSE /\ spRet' = [spRet EXCEPT ![c] = "err"]
            /\ spPc' = [spPc EXCEPT ![c] = "idle"]
            /\ UNCHANGED repos
  /\ UNCHANGED <<strVars, runVars, rtVars, spCalls, onceErr, onceDone, onceM,
                 setupRuns, setupResult, nodes>>

\* main.go 165-168 (CreateNode, 89-106)
CreateNode(c) ==
  /\ spPc[c] = "CreateNode"
  /\ \E ok \in BOOLEAN :
       IF ok
       THEN /\ nodes' = nodes + 1
            /\ spPc' = [spPc EXCEPT ![c] = "NewCoreAPI"]
            /\ UNCHANGED spRet
       ELSE /\ spRet' = [spRet EXCEPT ![c] = "err"]
            /\ spPc' = [spPc EXCEPT ![c] = "idle"]
            /\ UNCHANGED nodes
  /\ UNCHANGED <<strVars, runVars, rtVars, spCalls, onceErr, onceDone, onceM,
                 setupRuns, setupResult, repos>>

\* main.go 170-172: coreapi.NewCoreAPI and the return
NewCoreAPI(c) ==
  /\ spPc[c] = "NewCoreAPI"
  /\ \E ok \in BOOLEAN :
       spRet' = [spRet EXCEPT ![c] = IF ok THEN "ok" ELSE "err"]
  /\ spPc' = [spPc EXCEPT ![c] = "idle"]
  /\ UNCHANGED <<strVars, runVars, rtVars, spCalls, onceErr, onceDone, onceM,
                 setupRuns, setupResult, repos, nodes>>

\* ------------------------------------------- upload, then download the CID
\* names of directory entries and of files; <<".", "h">> is a hidden name
Names == {<<"a">>, <<"b">>, <<".", "h">>}
NameOrder == <<<<"a">>, <<"b">>, <<".", "h">>>>
\* file contents
Contents == {<<>>, <<"x">>}

File(bytes) == [kind |-> "file", bytes |-> bytes, entries |-> {}]
Directory(entries) == [kind |-> "dir", bytes |-> <<>>, entries |-> entries]

\* the entries of a directory: <<name, bytes>> pairs, a name at most once
EntrySets ==
  {es \in SUBSET (Names \X Contents) : \A e1, e2 \in es : e1[1] = e2[1] => e1 = e2}

\* what the -f path can name on the disk: a regular file or a directory;
\* a path with a trailing separator, and ".", name directories only
FilePaths == {<<"a">>, <<"d", "/", "a">>, <<".", "/", ".", "h">>, <<"d", "/", "b">>}
DirPaths == {<<"d">>, <<"d", "/">>, <<".">>}
FsObjects ==
  {<<p, File(b)>> : p \in FilePaths, b \in Contents}
    \cup {<<p, Directory(es)>> : p \in DirPaths, es \in EntrySets}

\* boxo files.isHidden: a name that starts with a dot, "." and ".." aside
IsHidden(name) == name \notin {<<>>, DOT, DOTDOT} /\ name[1] = "."

\* boxo files.NewSerialFile(path, includeHidden, stat): a regular file is
\* read as it is; the iterator of a directory skips the entries that are
\* hidden unless includeHidden is set
NewSerialFile(obj, includeHidden) ==
  IF obj.kind = "dir"
  THEN Directory({e \in obj.entries : includeHidden \/ ~IsHidden(e[1])})
  ELSE obj

\* main.go 108-120: NewSerialFile(path, false, st)
GetUnixfsNode(obj) == NewSerialFile(obj, FALSE)

\* main.go 193-197: what is no directory is wrapped in a directory whose one
\* entry has the base name of the path
WrapFile(path, isDir, someFile) ==
  IF ~isDir THEN Directory({<<Base(path), someFile.bytes>>}) ELSE someFile

\* The CID of a directory, as text: content addressing gives different
\* directories different CIDs.  One character for each name, in NameOrder:
\* "0" without that entry, else a character for its bytes.
CidOf(dir) ==
  <<"b">> \o [i \in 1..Len(NameOrder) |->
                IF \E e \in dir.entries : e[1] = NameOrder[i]
                THEN IF <<NameOrder[i], <<>>>> \in dir.entries THEN "Q" ELSE "m"
                ELSE "0"]

RtInit ==
  /\ rtPc = "upload"
  /\ \E o \in FsObjects : rtPath = o[1] /\ rtNode = o[2]
  /\ rtProvided = Directory({})
  /\ rtPrinted = <<>>
  /\ rtFlagCid = <<>>
  /\ rtOutPath = <<>>
  /\ rtOut = {}

RtIdle ==
  /\ rtPc = "idle"
  /\ rtPath = <<>>
  /\ rtNode = Directory({})
  /\ rtProvided = Directory({})
  /\ rtPrinted = <<>>
  /\ rtFlagCid = <<>>
  /\ rtOutPath = <<>>
  /\ rtOut = {}

\* main.go 175-228 with every call succeeding: the node of the path is
\* added, its CID printed, and the process serves it until a signal
RtUploadFiles ==
  /\ rtPc = "upload"
  /\ LET someFile == WrapFile(rtPath, rtNode.kind = "dir", GetUnixfsNode(rtNode))
     IN  /\ rtProvided' = someFile
         /\ rtPrinted' = PathString(CidOf(someFile))
  /\ rtPc' = "seeding"
  /\ UNCHANGED <<strVars, runVars, spawnVars, rtPath, rtNode, rtFlagCid,
                 rtOutPath, rtOut>>

\* what is given to -c on the other machine: the printed line, as it is,
\* with a line end, without the prefix, or with a separator at its end
RtFlagCids ==
  {rtPrinted, rtPrinted \o <<LF>>, <<SP>> \o CidOf(rtProvided), rtPrinted \o <<SLASH>>}

\* main.go 244-297 with every library call succeeding: the CID is stripped
\* and parsed (a panic when that fails), the directory with that CID is had
\* from the peer that serves it and written to Download/<cid>
RtDownloadFromCid ==
  /\ rtPc = "seeding"
  /\ \E flag \in RtFlagCids :
       LET c == GetCidStrFromString(flag)
       IN  /\ rtFlagCid' = flag
           /\ IF ~CidParseOk(c)
              THEN /\ rtPc' = "panic"
                   /\ UNCHANGED <<rtOutPath, rtOut>>
              ELSE /\ CidOf(rtProvided) = c
                   /\ rtOutPath' = Clean(OutputPath(c))
                   /\ rtOut' = rtProvided.entries
                   /\ rtPc' = "fetched"
  /\ UNCHANGED <<strVars, runVars, spawnVars, rtPath, rtNode, rtProvided,
                 rtPrinted>>

\* ---------------------------------------------------------- specifications
Init == StrIdle /\ RunInit /\ SpawnIdle /\ RtIdle

Next == MainThread \/ ForeverSpin \/ Signal

Spec == Init /\ [][Next]_vars

\* the Go scheduler runs a goroutine that can run: the main goroutine takes
\* its next step unless it waits (for a block, for a signal)
FairSpec == Spec /\ WF_vars(MainThread)

\* GetCidStrFromString on its own, over every drawn input
InitStr == StrInit /\ RunIdle /\ SpawnIdle /\ RtIdle

NextStr == CallGetCidStrFromString \/ CallGetCidStrFromStringAgain

SpecStr == InitStr /\ [][NextStr]_vars

\* calls of SpawnEphemeral from several goroutines, each calling it again
\* after it returned
InitSpawn == StrIdle /\ RunIdle /\ SpawnInit /\ RtIdle

NextSpawn ==
  \E c \in Callers :
    \/ SpawnEphemeral(c) \/ OnceDo(c) \/ OnceDoSlow(c) \/ SetupPlugins(c)
    \/ CheckOnceErr(c) \/ CreateTempRepo(c) \/ CreateNode(c) \/ NewCoreAPI(c)

SpecSpawn == InitSpawn /\ [][NextSpawn]_vars

\* an upload, and the download of the printed CID
InitRoundTrip == StrIdle /\ RunIdle /\ SpawnIdle /\ RtInit

NextRoundTrip == RtUploadFiles \/ RtDownloadFromCid

SpecRoundTrip == InitRoundTrip /\ [][NextRoundTrip]_vars

\* ------------------------------------------------------------------ claims
Printed(msg) == \E i \in 1..Len(stdout) : stdout[i][1] = msg
PrintedWith(msg, arg) == \E i \in 1..Len(stdout) : stdout[i] = <<msg, arg>>
Failed == \E i \in 1..Len(trace) : trace[i][2] = "err"

\* C1: the two modes exclude each other.  At most one of DownloadFromCid and
\* UploadFiles is invoked in a run; with only -f set it is UploadFiles, with
\* -c set (with or without -f) it is DownloadFromCid and never UploadFiles,
\* and with neither set nothing is invoked, no node is started and the usage
\* text is all that is printed.
C1_ModesExclusive ==
  /\ Cardinality(invoked) <= 1
  /\ flagCid # <<>> => invoked \subseteq {"DownloadFromCid"}
  /\ (flagCid = <<>> /\ flagFilePath # <<>>) => invoked \subseteq {"UploadFiles"}
  /\ (flagCid = <<>> /\ flagFilePath = <<>>) =>
       /\ invoked = {}
       /\ ctx = "none" /\ ~nodeStarted /\ trace = <<>>
       /\ \A i \in 1..Len(stdout) : stdout[i] = <<"usage">>
  /\ exitStatus \in {"0", "2"} =>
       /\ flagCid # <<>> => invoked = {"DownloadFromCid"}
       /\ (flagCid = <<>> /\ flagFilePath # <<>>) => invoked = {"UploadFiles"}
       /\ (flagCid = <<>> /\ flagFilePath = <<>>) => stdout = <<<<"usage">>>>

\* both flags set, and the run went through DownloadFromCid to exit 0
C1_Witness ==
  /\ flagCid # <<>> /\ flagFilePath # <<>>
  /\ invoked = {"DownloadFromCid"}
  /\ exitStatus = "0"

HasPrefix(s, pre) == Len(s) >= Len(pre) /\ SubSeq(s, 1, Len(pre)) = pre
NoSlash(s) == \A i \in 1..Len(s) : s[i] # SLASH
\* r is body without its leading and trailing space, CR and LF characters
IsTrimOf(r, body) ==
  \E i \in 1..(Len(body) + 1), j \in 0..Len(body) :
    /\ i <= j + 1
    /\ r = SubSeq(body, i, j)
    /\ \A k \in 1..(i - 1) : body[k] \in Cutset
    /\ \A k \in (j + 1)..Len(body) : body[k] \in Cutset
    /\ i <= j => body[i] \notin Cutset /\ body[j] \notin Cutset

\* C2: GetCidStrFromString strips a path prefix.  For "/ipfs/<cid>" and for
\* a bare "<cid>", <cid> without "/", the result is <cid> with leading and
\* trailing space, CR and LF removed; for every input it is the text after
\* the last "/", so trimmed; it holds no "/"; and GetCidStrFromString of the
\* result is the result.
C2_StripsPrefix ==
  strPc \in {"ret", "again"} =>
    /\ \A pre \in {<<>>, IpfsPrefix} :
         LET rest == SubSeq(str, Len(pre) + 1, Len(str))
         IN  (HasPrefix(str, pre) /\ NoSlash(rest)) => IsTrimOf(cidStr, rest)
    /\ \E k \in 0..Len(str) :
         LET rest == SubSeq(str, k + 1, Len(str))
         IN  /\ k = 0 \/ str[k] = SLASH
             /\ NoSlash(rest)
             /\ IsTrimOf(cidStr, rest)
    /\ NoSlash(cidStr)
    /\ strPc = "again" => cidStr2 = cidStr

\* "/ipfs/" before a CID with white space on both sides, stripped twice
C2_Witness ==
  /\ strPc = "again"
  /\ str = IpfsPrefix \o <<SP, "Q", "m", LF>>
  /\ cidStr = <<"Q", "m">>

\* C3: the round trip through the wrapper.  The download of the CID that
\* UploadFiles printed for a path writes the original content with its
\* names: for a directory the same entry names and bytes, for a single file
\* a directory of exactly one entry, named by the base name of the path,
\* with the bytes of the file.
C3_RoundTrip ==
  rtPc = "fetched" =>
    IF rtNode.kind = "dir"
    THEN rtOut = rtNode.entries
    ELSE rtOut = {<<Base(rtPath), rtNode.bytes>>}

C5_FailureNotSuccess ==
  /\ \A i \in 1..Len(trace) :
       trace[i][2] = "err" =>
         /\ i = Len(trace)
         /\ pc = "exited"
         /\ exitStatus \notin {"0", "running"}
         /\ ~Printed("Wrote the files to")
         /\ trace[i][1] = "Add" => ~Printed("Added file to IPFS")
  /\ Printed("Wrote the files to") =>
       trace = <<<<"StartIpfsNode", "ok">>, <<"Parse", "ok">>, <<"Get", "ok">>,
                 <<"Ls", "ok">>, <<"MkdirAll", "ok">>, <<"WriteTo", "ok">>>>
  /\ Printed("Added file to IPFS") =>
       /\ Len(trace) >= 4
       /\ SubSeq(trace, 1, 4) = <<<<"StartIpfsNode", "ok">>, <<"GetUnixfsNode", "ok">>,
                                  <<"Stat", "ok">>, <<"Add", "ok">>>>

\* a fetch whose last step, WriteTo, failed after all others succeeded
C5_Witness ==
  /\ Len(trace) = 6
  /\ trace[6] = <<"WriteTo", "err">>
  /\ exitStatus = "2"
  /\ ~Printed("Wrote the files to")

\* C6: a fetch for a CID that no peer provides terminates: DownloadFromCid,
\* waiting in Get with the network never supplying the content, eventually
\* ends.
C6_FetchTerminates ==
  (pc = "dl_Get" /\ ~provided) ~> (pc = "exited")

\* C7: plugin set-up is init-once.  Over all calls of SpawnEphemeral, one
\* after the other or at once, SetupPlugins is executed at most once, and
\* no call is creating a repository or a node while SetupPlugins runs.
C7_SetupOnce ==
  /\ setupRuns <= 1
  /\ Cardinality({c \in Callers : spPc[c] = "SetupPlugins"}) <= 1
  /\ (\E c \in Callers : spPc[c] = "SetupPlugins") =>
       /\ \A d \in Callers : spPc[d] \notin {"CreateTempRepo", "CreateNode", "NewCoreAPI"}
       /\ repos = 0 /\ nodes = 0

\* two callers have passed the Once, which ran SetupPlugins once, and one of
\* them is in a second call
C7_Witness ==
  /\ setupRuns = 1
  /\ \E c, d \in Callers :
       /\ c # d
       /\ spPc[c] = "CreateNode"
       /\ spPc[d] = "CreateTempRepo"
       /\ spCalls[d] > 1

\* C8: a fetch writes under ./Download/<cid>.  DownloadFromCid returns
\* "./Download/" followed by GetCidStrFromString of its input, which has no
\* separator and no white space around it (so the input with and without a
\* prefix gives one path); the write goes to that path, cleaned; and the
\* Download directory has been made when the write is attempted.
C8_OutputPath ==
  /\ returnedFrom = "DownloadFromCid" =>
       /\ retStr = DownloadPrefix \o GetCidStrFromString(flagCid)
       /\ retStr = DownloadPrefix \o GetCidStrFromString(GetCidStrFromString(flagCid))
       /\ PrintedWith("Wrote the files to", retStr)
  /\ writeTarget # <<>> =>
       /\ downloadDir
       /\ <<".", SLASH>> \o writeTarget = DownloadPrefix \o GetCidStrFromString(flagCid)
       /\ Split(writeTarget, SLASH) = <<<<"D", "o", "w", "n", "l", "o", "a", "d">>,
                                         GetCidStrFromString(flagCid)>>

\* "/ipfs/Qm" and a line end was given, and ./Download/Qm written and returned
C8_Witness ==
  /\ flagCid = IpfsPrefix \o <<"Q", "m", LF>>
  /\ returnedFrom = "DownloadFromCid"
  /\ retStr = DownloadPrefix \o <<"Q", "m">>
  /\ writeTarget = <<"D", "o", "w", "n", "l", "o", "a", "d", "/", "Q", "m">>

\* C9: shutdown propagates on every exit path.  When UploadFiles or
\* DownloadFromCid has ended after the node was started (by return, by a
\* signal or by a panic) the context has been cancelled; and the context is
\* not cancelled before the function ends.
C9_ShutdownPropagates ==
  /\ (nodeStarted /\ pc \in {"main_ret", "exited"}) => ctx = "cancelled"
  /\ ctx = "cancelled" => pc \in {"main_ret", "exited"}

\* C10: a failure of plugin set-up is sticky.  Once SetupPlugins has
\* returned an error, no call of SpawnEphemeral returns a node or gets to
\* CreateTempRepo, CreateNode or NewCoreAPI, and no repository and no node
\* is created.
C10_SetupFailureSticky ==
  setupResult = "err" =>
    /\ \A c \in Callers : spPc[c] \notin {"CreateTempRepo", "CreateNode", "NewCoreAPI"}
    /\ \A c \in Callers : spRet[c] # "ok"
    /\ repos = 0 /\ nodes = 0

====
